---------------------------- MODULE Spec2Model ----------------------------
(***************************************************************************)
(* Model of airflights.py: a linear pipeline that prepares a flight table  *)
(* and a weather table, merges them on the calendar date, derives the      *)
(* delay features, saves the merged table, draws five charts and prints a  *)
(* summary.                                                                *)
(*                                                                         *)
(* A table is [cols |-> sequence of column names, rows |-> sequence of     *)
(* rows], a row being a function from the column names to cells.  A cell   *)
(* is a record [t, n, d, s]: t is the kind of the value, n/d the number    *)
(* (d is the denominator of a float), s the characters of a string.        *)
(* Datetimes are minutes since 2022-01-01 00:00.                           *)
(***************************************************************************)
EXTENDS Integers, Sequences, FiniteSets, TLC

VARIABLES
    pc,           \* position in the script
    flights_raw,  \* flight table as loaded (column names upper-cased)
    weather_raw,  \* weather table as loaded
    fl,           \* working copy of the flight table
    fl_small,     \* flight table projected to the useful columns
    wx,           \* working copy of the weather table
    wx_agg,       \* weather table handed to the merge
    merged,       \* result of the merge
    m,            \* merged table with the derived columns
    tstep,        \* index of the next time_map entry
    saved,        \* TRUE once cleaned_flights_merged.csv is written
    charts,       \* the chart blocks run so far, with their outcomes
    faults,       \* the chart blocks whose drawing throws in this run
    raised        \* "" or the exception that ended the script

vars == <<pc, flights_raw, weather_raw, fl, fl_small, wx, wx_agg, merged, m,
          tstep, saved, charts, faults, raised>>

----------------------------------------------------------------------------
(* Cells *)

IntCell(k)   == [t |-> "int",      n |-> k, d |-> 1, s |-> <<>>]
Frac(k, q)   == [t |-> "float",    n |-> k, d |-> q, s |-> <<>>]
FloatCell(k) == Frac(k, 1)
NaN          == [t |-> "nan",      n |-> 0, d |-> 1, s |-> <<>>]
StrCell(cs)  == [t |-> "str",      n |-> 0, d |-> 1, s |-> cs]
Datetime(k)  == [t |-> "datetime", n |-> k, d |-> 1, s |-> <<>>]
NaT          == [t |-> "nat",      n |-> 0, d |-> 1, s |-> <<>>]
Period(k)    == [t |-> "period",   n |-> k, d |-> 1, s |-> <<>>]

\* Series.isna()
isna(c) == c.t \in {"nan", "nat"}

----------------------------------------------------------------------------
(* Tables *)

NoTable == [cols |-> <<>>, rows |-> <<>>]

Range(f) == {f[i] : i \in DOMAIN f}

Columns(tb) == Range(tb.cols)

Has(tb, c) == c \in Columns(tb)

\* tb[c]: the column as a sequence of cells
Col(tb, c) == [i \in DOMAIN tb.rows |-> tb.rows[i][c]]

\* tb[c] = series: overwrite column c, or append it as the last column
SetCol(tb, c, series) ==
    [cols |-> IF Has(tb, c) THEN tb.cols ELSE Append(tb.cols, c),
     rows |-> [i \in DOMAIN tb.rows |->
                 [k \in Columns(tb) \cup {c} |->
                    IF k = c THEN series[i] ELSE tb.rows[i][k]]]]

\* tb.rename(columns={old: new})
Rename(tb, old, new) ==
    [cols |-> [i \in DOMAIN tb.cols |-> IF tb.cols[i] = old THEN new ELSE tb.cols[i]],
     rows |-> [i \in DOMAIN tb.rows |->
                 [k \in (Columns(tb) \ {old}) \cup {new} |->
                    IF k = new THEN tb.rows[i][old] ELSE tb.rows[i][k]]]]

\* tb[names]: keep the listed columns, in the listed order
Project(tb, names) ==
    [cols |-> names,
     rows |-> [i \in DOMAIN tb.rows |-> [k \in Range(names) |-> tb.rows[i][k]]]]

\* the dtype pandas gives a column read from a CSV file
Dtype(tb, c) ==
    LET kinds == {tb.rows[i][c].t : i \in DOMAIN tb.rows}
    IN  IF kinds = {} THEN "object"
        ELSE IF kinds = {"int"} THEN "int64"
        ELSE IF kinds \subseteq {"float", "nan"} THEN "float64"
        ELSE IF kinds \subseteq {"datetime", "nat"} THEN "datetime64"
        ELSE "object"

----------------------------------------------------------------------------
(* Strings are sequences of characters; "sup2" stands for the single       *)
(* character U+00B2 (superscript two), a digit that is not a decimal.      *)

DecimalChars == {"0", "1", "2", "3", "4", "5", "6", "7", "8", "9"}

DigitValue(ch) ==
    CASE ch = "0" -> 0 [] ch = "1" -> 1 [] ch = "2" -> 2 [] ch = "3" -> 3
      [] ch = "4" -> 4 [] ch = "5" -> 5 [] ch = "6" -> 6 [] ch = "7" -> 7
      [] ch = "8" -> 8 [] ch = "9" -> 9

DigitChar(k) == <<"0", "1", "2", "3", "4", "5", "6", "7", "8", "9">>[k + 1]

RECURSIVE NatToStr(_)
NatToStr(k) == IF k < 10 THEN <<DigitChar(k)>>
               ELSE Append(NatToStr(k \div 10), DigitChar(k % 10))

\* astype(str) of one cell
astype_str(c) ==
    CASE c.t = "int"   -> IF c.n < 0 THEN <<"-">> \o NatToStr(-c.n) ELSE NatToStr(c.n)
      [] c.t = "float" -> NatToStr(c.n) \o <<".", "0">>
      [] c.t = "nan"   -> <<"n", "a", "n">>
      [] c.t = "str"   -> c.s

\* number of "0" characters ending cs
RECURSIVE TrailingZeros(_)
TrailingZeros(cs) ==
    IF cs # <<>> /\ cs[Len(cs)] = "0"
    THEN 1 + TrailingZeros(SubSeq(cs, 1, Len(cs) - 1)) ELSE 0

\* str.replace(r'\.0+$', '', regex=True)
StripDotZeros(cs) ==
    LET z == TrailingZeros(cs)
    IN  IF z >= 1 /\ Len(cs) > z /\ cs[Len(cs) - z] = "."
        THEN SubSeq(cs, 1, Len(cs) - z - 1) ELSE cs

\* str.zfill(width) of a string that carries no sign
RECURSIVE zfill(_, _)
zfill(cs, width) == IF Len(cs) >= width THEN cs ELSE zfill(<<"0">> \o cs, width)

\* str.isdigit(): every character is a Unicode digit, and there is one
isdigit(cs) == cs # <<>> /\ \A i \in DOMAIN cs : cs[i] \in DecimalChars \cup {"sup2"}

\* str.slice(start, stop), zero-based, stop excluded
slice(cs, start, stop) ==
    SubSeq(cs, start + 1, IF stop < Len(cs) THEN stop ELSE Len(cs))

\* int(text) succeeds only on decimal characters
IntParses(cs) == cs # <<>> /\ \A i \in DOMAIN cs : cs[i] \in DecimalChars

RECURSIVE ParseInt(_)
ParseInt(cs) == IF cs = <<>> THEN 0
                ELSE 10 * ParseInt(SubSeq(cs, 1, Len(cs) - 1)) + DigitValue(cs[Len(cs)])

----------------------------------------------------------------------------
(* hhmm_to_datetime *)

\* line 33: the padded text of every time code
PaddedCode(c) == zfill(StripDotZeros(astype_str(c)), 4)

\* line 34
mask_valid(c) == isdigit(PaddedCode(c))

\* .dt.date followed by pd.to_datetime: the day at 00:00
DayOf(dt) == IF dt.t = "datetime" THEN Datetime((dt.n \div (24 * 60)) * (24 * 60)) ELSE NaT

\* line 39, one valid row
CombineDateTime(dt, c) ==
    LET hh == ParseInt(slice(PaddedCode(c), 0, 2))
        mm == ParseInt(slice(PaddedCode(c), 2, 4))
    IN  IF DayOf(dt).t = "nat" THEN NaT
        ELSE Datetime(DayOf(dt).n + 60 * hh + mm)

\* lines 37-38 raise when a valid-masked code has a part int() rejects
ConversionRaises(time_series) ==
    \E i \in DOMAIN time_series :
        /\ mask_valid(time_series[i])
        /\ \/ ~IntParses(slice(PaddedCode(time_series[i]), 0, 2))
           \/ ~IntParses(slice(PaddedCode(time_series[i]), 2, 4))

hhmm_to_datetime(date_series, time_series) ==
    IF ConversionRaises(time_series)
    THEN [i \in DOMAIN date_series |-> NaT]
    ELSE [i \in DOMAIN date_series |->
            IF mask_valid(time_series[i])
            THEN CombineDateTime(date_series[i], time_series[i])
            ELSE NaT]

----------------------------------------------------------------------------
(* Dates.  The modelled calendar is January and February 2022.             *)

DaysInMonth(mo) == IF mo = 1 THEN 31 ELSE 28

ValidYMD(y, mo, dd) == y = 2022 /\ mo \in 1..2 /\ dd >= 1 /\ dd <= DaysInMonth(mo)

DayNumber(mo, dd) == (IF mo = 1 THEN 0 ELSE 31) + dd - 1

\* the text "YYYY-MM-DD", optionally followed by " HH:MM"
IsDateText(cs) ==
    /\ Len(cs) \in {10, 16}
    /\ \A i \in {1, 2, 3, 4, 6, 7, 9, 10} : cs[i] \in DecimalChars
    /\ cs[5] = "-" /\ cs[8] = "-"
    /\ ValidYMD(ParseInt(SubSeq(cs, 1, 4)), ParseInt(SubSeq(cs, 6, 7)),
                ParseInt(SubSeq(cs, 9, 10)))
    /\ Len(cs) = 16 =>
          /\ cs[11] = " " /\ cs[14] = ":"
          /\ \A i \in {12, 13, 15, 16} : cs[i] \in DecimalChars
          /\ ParseInt(SubSeq(cs, 12, 13)) < 24
          /\ ParseInt(SubSeq(cs, 15, 16)) < 60

\* pd.to_datetime(cell, errors="coerce")
to_datetime(c) ==
    IF c.t = "datetime" THEN c
    ELSE IF c.t = "str" /\ IsDateText(c.s)
    THEN Datetime(DayNumber(ParseInt(SubSeq(c.s, 6, 7)), ParseInt(SubSeq(c.s, 9, 10)))
                    * (24 * 60)
                  + (IF Len(c.s) = 16
                     THEN 60 * ParseInt(SubSeq(c.s, 12, 13)) + ParseInt(SubSeq(c.s, 15, 16))
                     ELSE 0))
    ELSE NaT

\* pd.to_datetime(tb[["YEAR","MONTH","DAY"]], errors="coerce"), one row
to_datetime_ymd(row) ==
    IF /\ \A k \in {"YEAR", "MONTH", "DAY"} : row[k].t \in {"int", "float"} /\ row[k].d = 1
       /\ ValidYMD(row["YEAR"].n, row["MONTH"].n, row["DAY"].n)
    THEN Datetime(DayNumber(row["MONTH"].n, row["DAY"].n) * (24 * 60))
    ELSE NaT

\* lines 62-65 and 123-126: the date column of a table, under the name datecol
DeriveDate(tb, datecol) ==
    IF {"YEAR", "MONTH", "DAY"} \subseteq Columns(tb) /\ ~Has(tb, datecol)
    THEN SetCol(tb, datecol, [i \in DOMAIN tb.rows |-> to_datetime_ymd(tb.rows[i])])
    ELSE IF Has(tb, datecol)
    THEN SetCol(tb, datecol, [i \in DOMAIN tb.rows |-> to_datetime(tb.rows[i][datecol])])
    ELSE tb

\* .dt.to_period("M")
to_period_M(c) == IF c.t = "datetime"
                  THEN Period(IF c.n \div (24 * 60) < 31 THEN 1 ELSE 2)
                  ELSE NaT

----------------------------------------------------------------------------
(* Numbers *)

\* pd.to_numeric(cell, errors="coerce")
to_numeric(c) ==
    IF c.t \in {"int", "float"} THEN c
    ELSE IF c.t = "str" /\ IntParses(c.s) THEN IntCell(ParseInt(c.s))
    ELSE NaN

\* .fillna(0).astype(int) of a numeric cell whose value is whole
fillna0_astype_int(c) == IF c.t = "nan" THEN IntCell(0) ELSE IntCell(c.n \div c.d)

\* (a - b).dt.total_seconds() / 60
MinutesBetween(a, b) ==
    IF a.t = "datetime" /\ b.t = "datetime" THEN FloatCell(a.n - b.n) ELSE NaN

LongDelayThreshold == 15

\* the flag with the comparison written >= instead of >
long_delay_flag_inclusive(c) ==
    IntCell(IF c.t \in {"int", "float"} /\ c.n >= LongDelayThreshold * c.d THEN 1 ELSE 0)

\* (delay > 15).astype(int)
long_delay_flag(c) ==
    IntCell(IF c.t \in {"int", "float"} /\ c.n > LongDelayThreshold * c.d THEN 1 ELSE 0)

----------------------------------------------------------------------------
(* Flight preparation, lines 59-116 *)

time_map == << <<"CRS_DEP_TIME", "SCHED_DEP_DATETIME">>,
               <<"DEP_TIME",     "ACTUAL_DEP_DATETIME">>,
               <<"CRS_ARR_TIME", "SCHED_ARR_DATETIME">>,
               <<"ARR_TIME",     "ACTUAL_ARR_DATETIME">> >>

\* lines 81-82 for one entry of time_map
ApplyTimeMap(tb, tcol, outcol) ==
    IF Has(tb, tcol) /\ Has(tb, "FL_DATE")
    THEN SetCol(tb, outcol, hhmm_to_datetime(Col(tb, "FL_DATE"), Col(tb, tcol)))
    ELSE tb

\* the delay with the two derived timestamps preferred to the DEP_DELAY column
DEP_DELAY_MIN_TimesFirst(tb) ==
    IF Has(tb, "ACTUAL_DEP_DATETIME") /\ Has(tb, "SCHED_DEP_DATETIME")
    THEN [i \in DOMAIN tb.rows |->
            MinutesBetween(tb.rows[i]["ACTUAL_DEP_DATETIME"],
                           tb.rows[i]["SCHED_DEP_DATETIME"])]
    ELSE IF Has(tb, "DEP_DELAY")
    THEN [i \in DOMAIN tb.rows |-> to_numeric(tb.rows[i]["DEP_DELAY"])]
    ELSE [i \in DOMAIN tb.rows |-> NaN]

\* lines 85-91
DEP_DELAY_MIN(tb) ==
    IF Has(tb, "DEP_DELAY")
    THEN [i \in DOMAIN tb.rows |-> to_numeric(tb.rows[i]["DEP_DELAY"])]
    ELSE IF Has(tb, "ACTUAL_DEP_DATETIME") /\ Has(tb, "SCHED_DEP_DATETIME")
    THEN [i \in DOMAIN tb.rows |->
            MinutesBetween(tb.rows[i]["ACTUAL_DEP_DATETIME"],
                           tb.rows[i]["SCHED_DEP_DATETIME"])]
    ELSE [i \in DOMAIN tb.rows |-> NaN]

\* "CANCEL" in c, over the column names of the modelled tables
ContainsCANCEL(c) == c \in {"CANCELLED", "CANCELLATION_CODE"}

\* lines 94-98: the first column whose name contains CANCEL, or "" for None
cancel_col(tb) ==
    IF \E i \in DOMAIN tb.cols : ContainsCANCEL(tb.cols[i])
    THEN tb.cols[CHOOSE i \in DOMAIN tb.cols :
                    /\ ContainsCANCEL(tb.cols[i])
                    /\ \A j \in 1..(i - 1) : ~ContainsCANCEL(tb.cols[j])]
    ELSE ""

\* the column, or a series of NaT when the table lacks it (lines 103-104)
ColOrNaT(tb, c) == IF Has(tb, c) THEN Col(tb, c) ELSE [i \in DOMAIN tb.rows |-> NaT]

\* lines 99-105
CANCELLED_FLAG(tb) ==
    IF cancel_col(tb) # ""
    THEN [i \in DOMAIN tb.rows |->
            fillna0_astype_int(to_numeric(tb.rows[i][cancel_col(tb)]))]
    ELSE LET act_dep == ColOrNaT(tb, "ACTUAL_DEP_DATETIME")
             act_arr == ColOrNaT(tb, "ACTUAL_ARR_DATETIME")
         IN  [i \in DOMAIN tb.rows |->
                IntCell(IF isna(act_dep[i]) /\ isna(act_arr[i]) THEN 1 ELSE 0)]

\* lines 108-111
RenameAirline(tb) ==
    IF Has(tb, "CARRIER") /\ ~Has(tb, "AIRLINE") THEN Rename(tb, "CARRIER", "AIRLINE")
    ELSE IF Has(tb, "OP_CARRIER") /\ ~Has(tb, "AIRLINE")
    THEN Rename(tb, "OP_CARRIER", "AIRLINE")
    ELSE tb

\* line 114
useful_cols(tb) ==
    LET InTable(c) == Has(tb, c)
    IN  SelectSeq(<<"FL_DATE", "AIRLINE", "TAIL_NUM", "FL_NUM", "ORIGIN", "DEST",
                    "DEP_DELAY_MIN", "ARR_DELAY", "DISTANCE", "CANCELLED_FLAG",
                    "SCHED_DEP_DATETIME", "ACTUAL_DEP_DATETIME">>, InTable)

----------------------------------------------------------------------------
(* Weather preparation, lines 121-141 *)

\* lines 123-131
PrepareWx(tb) ==
    LET dated == DeriveDate(tb, "DATE")
    IN  IF Has(dated, "STATION") /\ ~Has(dated, "ORIGIN")
        THEN Rename(dated, "STATION", "ORIGIN") ELSE dated

\* line 134: select_dtypes(include=[np.number])
numeric_weather_cols(tb) ==
    LET IsNumeric(c) == Dtype(tb, c) \in {"int64", "float64"}
    IN  SelectSeq(tb.cols, IsNumeric)

RECURSIVE GCD(_, _)
GCD(a, b) == IF b = 0 THEN a ELSE GCD(b, a % b)

Abs(a) == IF a < 0 THEN -a ELSE a

\* the float num/den in lowest terms
Quotient(num, den) ==
    LET g == GCD(Abs(num), den) IN Frac(num \div g, den \div g)

RECURSIVE SumOver(_, _, _)
SumOver(tb, c, idx) ==
    IF idx = {} THEN 0
    ELSE LET i == CHOOSE x \in idx : TRUE
         IN  tb.rows[i][c].n + SumOver(tb, c, idx \ {i})

\* the mean with the missing values counted as rows of value 0
GroupMeanCountingMissing(tb, dt, c) ==
    LET idx == {i \in DOMAIN tb.rows : tb.rows[i]["DATE"] = dt}
    IN  Quotient(SumOver(tb, c, idx), Cardinality(idx))

\* mean() of column c over the group of date dt: missing values are skipped
GroupMean(tb, dt, c) ==
    LET idx == {i \in DOMAIN tb.rows :
                   tb.rows[i]["DATE"] = dt /\ tb.rows[i][c].t \in {"int", "float"}}
    IN  IF idx = {} THEN NaN ELSE Quotient(SumOver(tb, c, idx), Cardinality(idx))

RECURSIVE SortedSeq(_)
SortedSeq(S) ==
    IF S = {} THEN <<>>
    ELSE LET lo == CHOOSE x \in S : \A y \in S : x <= y
         IN  <<lo>> \o SortedSeq(S \ {lo})

\* the group keys: groupby drops the missing dates and sorts the rest
GroupKeys(tb) ==
    SortedSeq({tb.rows[i]["DATE"].n : i \in {j \in DOMAIN tb.rows :
                                               tb.rows[j]["DATE"].t = "datetime"}})

\* line 136: wx.groupby("DATE")[numeric_weather_cols].mean().reset_index()
GroupByDateMean(tb) ==
    LET keys == GroupKeys(tb)
        nums == numeric_weather_cols(tb)
    IN  [cols |-> <<"DATE">> \o nums,
         rows |-> [g \in DOMAIN keys |->
                     [k \in {"DATE"} \cup Range(nums) |->
                        IF k = "DATE" THEN Datetime(keys[g])
                        ELSE GroupMean(tb, Datetime(keys[g]), k)]]]

\* lines 135-141
Aggregate(tb) ==
    IF Len(numeric_weather_cols(tb)) > 0 /\ Has(tb, "DATE")
    THEN GroupByDateMean(tb)
    ELSE tb

----------------------------------------------------------------------------
(* Merge, lines 146-152 *)

\* the name a right-hand column gets: suffixes=("", "_WX")
RightName(left, c) == IF Has(left, c) THEN c \o "_WX" ELSE c

\* the right-hand column a merged column comes from
RightSource(left, right, name) ==
    CHOOSE c \in Columns(right) : RightName(left, c) = name

MissingOf(right, c) == IF Dtype(right, c) = "datetime64" THEN NaT ELSE NaN

\* the right rows whose key equals the left row's key, in the right table's
\* order; missing keys match missing keys
Matches(left, right, i) ==
    LET SameKey(j) == right.rows[j]["DATE"] = left.rows[i]["FL_DATE"]
    IN  SelectSeq([j \in DOMAIN right.rows |-> j], SameKey)

\* one output row: the left row with the cells of right row j (0: no match)
JoinRow(left, right, i, j) ==
    [k \in Columns(left) \cup {RightName(left, c) : c \in Columns(right)} |->
        IF k \in Columns(left) THEN left.rows[i][k]
        ELSE IF j = 0 THEN MissingOf(right, RightSource(left, right, k))
        ELSE right.rows[j][RightSource(left, right, k)]]

\* the output rows of left rows i..Len
RECURSIVE JoinFrom(_, _, _)
JoinFrom(left, right, i) ==
    IF i > Len(left.rows) THEN <<>>
    ELSE LET ms == Matches(left, right, i)
         IN  (IF ms = <<>> THEN <<JoinRow(left, right, i, 0)>>
              ELSE [x \in DOMAIN ms |-> JoinRow(left, right, i, ms[x])])
             \o JoinFrom(left, right, i + 1)

\* the output rows of an inner join: a left row without a match is dropped
RECURSIVE InnerJoinFrom(_, _, _)
InnerJoinFrom(left, right, i) ==
    IF i > Len(left.rows) THEN <<>>
    ELSE LET ms == Matches(left, right, i)
         IN  [x \in DOMAIN ms |-> JoinRow(left, right, i, ms[x])]
             \o InnerJoinFrom(left, right, i + 1)

\* the merge written with how="inner"
InnerMerge(left, right) ==
    [cols |-> left.cols \o [x \in DOMAIN right.cols |-> RightName(left, right.cols[x])],
     rows |-> InnerJoinFrom(left, right, 1)]

\* pd.merge(left, right, left_on="FL_DATE", right_on="DATE", how="left", ...)
LeftMerge(left, right) ==
    [cols |-> left.cols \o [x \in DOMAIN right.cols |-> RightName(left, right.cols[x])],
     rows |-> JoinFrom(left, right, 1)]

\* lines 146-152
MergeTables(left, right) ==
    IF Has(left, "FL_DATE") /\ Has(right, "DATE")
    THEN LeftMerge(left, right)
    ELSE left

----------------------------------------------------------------------------
(* Derived columns, lines 157-163 *)

\* line 161 reads m["FL_DATE"] whether or not the column exists
DerivationRaises(tb) == ~Has(tb, "FL_DATE")

Derive(tb) ==
    LET t1 == SetCol(tb, "FL_DATE",
                     [i \in DOMAIN tb.rows |-> to_datetime(tb.rows[i]["FL_DATE"])])
        t2 == SetCol(t1, "YEAR_MONTH",
                     [i \in DOMAIN tb.rows |-> to_period_M(t1.rows[i]["FL_DATE"])])
        t3 == SetCol(t2, "DEP_DELAY_MIN",
                     [i \in DOMAIN tb.rows |-> to_numeric(t2.rows[i]["DEP_DELAY_MIN"])])
    IN  SetCol(t3, "LONG_DELAY_FLAG",
               [i \in DOMAIN tb.rows |-> long_delay_flag(t3.rows[i]["DEP_DELAY_MIN"])])

----------------------------------------------------------------------------
(* Charts, lines 180-264 *)

ChartOrder == <<"monthly", "cancellations", "airline", "heatmap", "scatter">>

\* line 229, on the final table: the derived numeric columns and the numeric
\* columns carried over from the inputs
numeric_cols(tb) ==
    LET IsNumeric(c) == \/ c \in {"DEP_DELAY_MIN", "CANCELLED_FLAG", "LONG_DELAY_FLAG"}
                        \/ Dtype(tb, c) \in {"int64", "float64"}
    IN  SelectSeq(tb.cols, IsNumeric)

\* "TEMP" in c or "TEMPERATURE" in c or "TMAX" in c or "TMIN" in c, over the
\* column names of the modelled tables
ContainsTemp(c) == c \in {"TMAX", "TMAX_WX", "TMIN", "TEMP", "TEMPERATURE"}

\* line 246
temp_candidates(tb) == SelectSeq(tb.cols, ContainsTemp)

\* the condition under which a chart block draws at all
ChartGuard(chart, tb) ==
    CASE chart = "monthly"       -> TRUE
      [] chart = "cancellations" -> Has(tb, "CANCELLED_FLAG")
      [] chart = "airline"       -> Has(tb, "AIRLINE")
      [] chart = "heatmap"       -> Len(numeric_cols(tb)) > 1
      [] chart = "scatter"       -> Len(temp_candidates(tb)) > 0

\* a block that throws is caught by its except clause and only logged
ChartOutcome(chart, tb, failing) ==
    IF ~ChartGuard(chart, tb) THEN "skipped"
    ELSE IF chart \in failing THEN "failed"
    ELSE "saved"

\* a chart block without its except clause: a failure ends the script
AfterChartUncaught(chart, outcome) ==
    IF outcome = "failed" THEN "raised"
    ELSE CASE chart = "monthly"       -> "chart_cancellations"
           [] chart = "cancellations" -> "chart_airline"
           [] chart = "airline"       -> "chart_heatmap"
           [] chart = "heatmap"       -> "chart_scatter"
           [] chart = "scatter"       -> "summary"

\* where the script goes after a chart block, whatever its outcome
AfterChart(chart, outcome) ==
    CASE chart = "monthly"       -> "chart_cancellations"
      [] chart = "cancellations" -> "chart_airline"
      [] chart = "airline"       -> "chart_heatmap"
      [] chart = "heatmap"       -> "chart_scatter"
      [] chart = "scatter"       -> "summary"

----------------------------------------------------------------------------
(* The script, one action per block *)

\* lines 59-71
PrepareDate ==
    /\ pc = "prepare_date"
    /\ fl' = DeriveDate(flights_raw, "FL_DATE")
    /\ tstep' = 1
    /\ pc' = "time_map"
    /\ UNCHANGED <<flights_raw, weather_raw, fl_small, wx, wx_agg, merged, m,
                   saved, charts, faults, raised>>

\* lines 80-82, one iteration
TimeMapStep ==
    /\ pc = "time_map"
    /\ fl' = ApplyTimeMap(fl, time_map[tstep][1], time_map[tstep][2])
    /\ tstep' = tstep + 1
    /\ pc' = IF tstep = Len(time_map) THEN "dep_delay" ELSE "time_map"
    /\ UNCHANGED <<flights_raw, weather_raw, fl_small, wx, wx_agg, merged, m,
                   saved, charts, faults, raised>>

\* lines 85-91
DepDelay ==
    /\ pc = "dep_delay"
    /\ fl' = SetCol(fl, "DEP_DELAY_MIN", DEP_DELAY_MIN(fl))
    /\ pc' = "cancel_flag"
    /\ UNCHANGED <<flights_raw, weather_raw, fl_small, wx, wx_agg, merged, m,
                   tstep, saved, charts, faults, raised>>

\* lines 94-105
CancelFlag ==
    /\ pc = "cancel_flag"
    /\ fl' = SetCol(fl, "CANCELLED_FLAG", CANCELLED_FLAG(fl))
    /\ pc' = "project"
    /\ UNCHANGED <<flights_raw, weather_raw, fl_small, wx, wx_agg, merged, m,
                   tstep, saved, charts, faults, raised>>

\* lines 108-116
ProjectUseful ==
    /\ pc = "project"
    /\ fl' = RenameAirline(fl)
    /\ fl_small' = Project(RenameAirline(fl), useful_cols(RenameAirline(fl)))
    /\ pc' = "prepare_weather"
    /\ UNCHANGED <<flights_raw, weather_raw, wx, wx_agg, merged, m,
                   tstep, saved, charts, faults, raised>>

\* lines 121-131
PrepareWeather ==
    /\ pc = "prepare_weather"
    /\ wx' = PrepareWx(weather_raw)
    /\ pc' = "aggregate_weather"
    /\ UNCHANGED <<flights_raw, weather_raw, fl, fl_small, wx_agg, merged, m,
                   tstep, saved, charts, faults, raised>>

\* lines 134-141
AggregateWeather ==
    /\ pc = "aggregate_weather"
    /\ wx_agg' = Aggregate(wx)
    /\ pc' = "merge"
    /\ UNCHANGED <<flights_raw, weather_raw, fl, fl_small, wx, merged, m,
                   tstep, saved, charts, faults, raised>>

\* lines 146-152
Merge ==
    /\ pc = "merge"
    /\ merged' = MergeTables(fl_small, wx_agg)
    /\ pc' = "add_derived"
    /\ UNCHANGED <<flights_raw, weather_raw, fl, fl_small, wx, wx_agg, m,
                   tstep, saved, charts, faults, raised>>

\* lines 157-163
AddDerived ==
    /\ pc = "add_derived"
    /\ ~DerivationRaises(merged)
    /\ m' = Derive(merged)
    /\ pc' = "save"
    /\ UNCHANGED <<flights_raw, weather_raw, fl, fl_small, wx, wx_agg, merged,
                   tstep, saved, charts, faults, raised>>

\* line 161 on a table without FL_DATE: KeyError ends the script
AddDerivedRaises ==
    /\ pc = "add_derived"
    /\ DerivationRaises(merged)
    /\ m' = merged
    /\ raised' = "KeyError"
    /\ pc' = "raised"
    /\ UNCHANGED <<flights_raw, weather_raw, fl, fl_small, wx, wx_agg, merged,
                   tstep, saved, charts, faults>>

\* lines 166-168
SaveCsv ==
    /\ pc = "save"
    /\ saved' = TRUE
    /\ pc' = "chart_monthly"
    /\ UNCHANGED <<flights_raw, weather_raw, fl, fl_small, wx, wx_agg, merged, m,
                   tstep, charts, faults, raised>>

\* one try/except chart block
ChartBlock(chart) ==
    LET outcome == ChartOutcome(chart, m, faults)
    IN  /\ charts' = Append(charts, [chart |-> chart, outcome |-> outcome])
        /\ pc' = AfterChart(chart, outcome)
        /\ UNCHANGED <<flights_raw, weather_raw, fl, fl_small, wx, wx_agg, merged,
                       m, tstep, saved, faults, raised>>

\* lines 180-192
ChartMonthly == pc = "chart_monthly" /\ ChartBlock("monthly")

\* lines 195-210
ChartCancellations == pc = "chart_cancellations" /\ ChartBlock("cancellations")

\* lines 213-225
ChartAirline == pc = "chart_airline" /\ ChartBlock("airline")

\* lines 228-243
ChartHeatmap == pc = "chart_heatmap" /\ ChartBlock("heatmap")

\* lines 246-264
ChartScatter == pc = "chart_scatter" /\ ChartBlock("scatter")

\* lines 269-281
Summary ==
    /\ pc = "summary"
    /\ pc' = "done"
    /\ UNCHANGED <<flights_raw, weather_raw, fl, fl_small, wx, wx_agg, merged, m,
                   tstep, saved, charts, faults, raised>>

Next ==
    \/ PrepareDate
    \/ TimeMapStep
    \/ DepDelay
    \/ CancelFlag
    \/ ProjectUseful
    \/ PrepareWeather
    \/ AggregateWeather
    \/ Merge
    \/ AddDerived
    \/ AddDerivedRaises
    \/ SaveCsv
    \/ ChartMonthly
    \/ ChartCancellations
    \/ ChartAirline
    \/ ChartHeatmap
    \/ ChartScatter
    \/ Summary

----------------------------------------------------------------------------
(* Inputs: the tables read_csv can return over small sets of cells *)

MaxFlights == 2
MaxWeather == 2

SeqsUpTo(S, k) == UNION {[1..j -> S] : j \in 0..k}

\* the rows over the columns cols whose cells are drawn from cellsOf
RowsOver(cols, cellsOf) ==
    {r \in [Range(cols) -> UNION {cellsOf[c] : c \in Range(cols)}] :
        \A c \in Range(cols) : r[c] \in cellsOf[c]}

\* text read_csv would have parsed as a number
NumberText(cs) ==
    /\ cs # <<>>
    /\ \A i \in DOMAIN cs : cs[i] \in DecimalChars \cup {"."}
    /\ Cardinality({i \in DOMAIN cs : cs[i] = "."}) <= 1
    /\ \E i \in DOMAIN cs : cs[i] \in DecimalChars

\* every column has a dtype read_csv produces: all integers, floats with
\* missing values, or text with missing values and a cell that is no number
CsvReadable(tb) ==
    \A c \in Columns(tb) :
        LET cells == {tb.rows[i][c] : i \in DOMAIN tb.rows}
            kinds == {x.t : x \in cells}
        IN  \/ kinds \subseteq {"int"}
            \/ kinds \subseteq {"float", "nan"}
            \/ /\ kinds \subseteq {"str", "nan"}
               /\ \E x \in cells : x.t = "str" /\ ~NumberText(x.s)

Tables(cols, cellsOf, k) ==
    {tb \in {[cols |-> cols, rows |-> r] : r \in SeqsUpTo(RowsOver(cols, cellsOf), k)} :
        CsvReadable(tb)}

Jan01 == <<"2", "0", "2", "2", "-", "0", "1", "-", "0", "1">>
Jan02 == <<"2", "0", "2", "2", "-", "0", "1", "-", "0", "2">>
Jan01At6 == Jan01 \o <<" ", "0", "6", ":", "0", "0">>
NotADate == <<"x">>

Start(F, W, Fs) ==
    /\ flights_raw \in F
    /\ weather_raw \in W
    /\ faults \in Fs
    /\ pc = "prepare_date"
    /\ fl = NoTable /\ fl_small = NoTable
    /\ wx = NoTable /\ wx_agg = NoTable
    /\ merged = NoTable /\ m = NoTable
    /\ tstep = 1
    /\ saved = FALSE
    /\ charts = <<>>
    /\ raised = ""

----------------------------------------------------------------------------
(* Input families *)

NoFaults == {{}}

\* a weather file with one observation, 2022-01-01 with TMAX 70
OneDayWeather ==
    [cols |-> <<"DATE", "TMAX">>,
     rows |-> << [DATE |-> StrCell(Jan01), TMAX |-> IntCell(70)] >>]

\* flight files with no date column at all
UndatedFlights ==
    Tables(<<"DEP_DELAY">>, [DEP_DELAY |-> {IntCell(20), IntCell(5)}], 1)

\* time codes as read_csv delivers them: integers, floats beside missing
\* values, text beside text that is no number
TimeCodeCells ==
    {IntCell(0), IntCell(530), IntCell(1530), IntCell(2359),
     FloatCell(0), FloatCell(530), NaN,
     StrCell(<<"0", "5", "3", "0">>), StrCell(<<"5", "3", "0">>),
     StrCell(<<"x">>), StrCell(<<"sup2">>)}

\* one time column beside the date
OneTimeColumnFlights ==
    Tables(<<"FL_DATE", "DEP_TIME">>,
           [FL_DATE |-> {StrCell(Jan01At6), StrCell(NotADate)},
            DEP_TIME |-> TimeCodeCells], MaxFlights)

\* scheduled and actual departure codes, all integers
TwoTimeColumnFlights ==
    Tables(<<"FL_DATE", "CRS_DEP_TIME", "DEP_TIME">>,
           [FL_DATE |-> {StrCell(Jan01), StrCell(Jan02)},
            CRS_DEP_TIME |-> {IntCell(900), IntCell(2350), IntCell(0)},
            DEP_TIME |-> {IntCell(915), IntCell(916), IntCell(10), IntCell(2359)}],
           MaxFlights)

\* the same with the actual departure read as text
TextDepartureFlights ==
    Tables(<<"FL_DATE", "CRS_DEP_TIME", "DEP_TIME">>,
           [FL_DATE |-> {StrCell(Jan01)},
            CRS_DEP_TIME |-> {IntCell(2350)},
            DEP_TIME |-> {StrCell(<<"0", "0", "1", "0">>), StrCell(<<"x">>),
                          StrCell(<<"sup2">>)}],
           MaxFlights)

TimeFlights ==
    OneTimeColumnFlights \cup TwoTimeColumnFlights \cup TextDepartureFlights
        \cup UndatedFlights

InitTime == Start(TimeFlights, {OneDayWeather}, NoFaults)

SpecTime == InitTime /\ [][Next]_vars

----------------------------------------------------------------------------
(* Properties of hhmm_to_datetime, checked under SpecTime *)

AllDecimal(cs) == cs # <<>> /\ \A i \in DOMAIN cs : cs[i] \in DecimalChars

\* the number a time code stands for, read off the input cell: an integer, a
\* whole float, or text of at most four decimal digits; -1 otherwise
CodeNumber(c) ==
    IF c.t \in {"int", "float"} /\ c.d = 1 /\ c.n >= 0 THEN c.n
    ELSE IF c.t = "str" /\ AllDecimal(c.s) /\ Len(c.s) <= 4 THEN ParseInt(c.s)
    ELSE -1

\* a code 100*h + m with 0 <= h <= 23 and 0 <= m <= 59
IsClockCode(c) ==
    CodeNumber(c) >= 0 /\ (CodeNumber(c) \div 100) <= 23 /\ (CodeNumber(c) % 100) <= 59

ClockMinutes(c) == 60 * (CodeNumber(c) \div 100) + (CodeNumber(c) % 100)

\* the entries of time_map whose output column exists in the working table
DerivedTimes == {e \in Range(time_map) : Has(fl, e[2])}

\* the calendar day (in minutes) of a derived date
DayStart(dt) == (dt.n \div (24 * 60)) * (24 * 60)

\* C4: every row with a date and a clock code 100*h + m (integer, float or
\* numeric text) gets the timestamp "that date at h:m"; code 0 is midnight.
C4_ClockCodeGivesExactTimestamp ==
    \A e \in DerivedTimes : \A i \in DOMAIN fl.rows :
        (fl.rows[i]["FL_DATE"].t = "datetime" /\ IsClockCode(flights_raw.rows[i][e[1]]))
        => fl.rows[i][e[2]] =
              Datetime(DayStart(fl.rows[i]["FL_DATE"])
                         + ClockMinutes(flights_raw.rows[i][e[1]]))

\* the rows of a batch whose padded code is all decimal digits
DecimalRows(codes) ==
    LET IsDecimalRow(i) == AllDecimal(PaddedCode(codes[i]))
    IN  SelectSeq([i \in DOMAIN codes |-> i], IsDecimalRow)

\* C5: a row whose code is missing or not numeric gets a missing timestamp,
\* and every other row gets the timestamp it gets when the batch holds the
\* numeric rows alone.
C5_InvalidRowsLeaveOthersAlone ==
    \A e \in DerivedTimes :
        LET codes == Col(flights_raw, e[1])
            dates == Col(fl, "FL_DATE")
            keep  == DecimalRows(codes)
            alone == hhmm_to_datetime([x \in DOMAIN keep |-> dates[keep[x]]],
                                      [x \in DOMAIN keep |-> codes[keep[x]]])
        IN  /\ \A i \in DOMAIN codes :
                  ~AllDecimal(PaddedCode(codes[i])) => fl.rows[i][e[2]] = NaT
            /\ \A x \in DOMAIN keep : fl.rows[keep[x]][e[2]] = alone[x]

\* C10: without a DEP_DELAY column, a dated row whose two departure codes
\* are clock codes has DEP_DELAY_MIN = actual minutes - scheduled minutes of
\* the same day, strictly between -1440 and 1440 (2350 -> 0010 is -1420),
\* and such a negative delay has LONG_DELAY_FLAG 0.
C10_SameDayDelay ==
    /\ (/\ Has(fl, "DEP_DELAY_MIN") /\ ~Has(flights_raw, "DEP_DELAY")
        /\ Has(flights_raw, "CRS_DEP_TIME") /\ Has(flights_raw, "DEP_TIME"))
       => \A i \in DOMAIN fl.rows :
             (/\ fl.rows[i]["FL_DATE"].t = "datetime"
              /\ IsClockCode(flights_raw.rows[i]["CRS_DEP_TIME"])
              /\ IsClockCode(flights_raw.rows[i]["DEP_TIME"]))
             => LET delay == fl.rows[i]["DEP_DELAY_MIN"]
                IN  /\ delay = FloatCell(ClockMinutes(flights_raw.rows[i]["DEP_TIME"])
                                   - ClockMinutes(flights_raw.rows[i]["CRS_DEP_TIME"]))
                    /\ delay.n > -(24 * 60) /\ delay.n < 24 * 60
    /\ Has(m, "LONG_DELAY_FLAG")
       => \A i \in DOMAIN m.rows :
             (m.rows[i]["DEP_DELAY_MIN"].t = "float" /\ m.rows[i]["DEP_DELAY_MIN"].n < 0)
             => m.rows[i]["LONG_DELAY_FLAG"] = IntCell(0)

----------------------------------------------------------------------------
(* Flight files over every combination of the optional columns, and flight *)
(* files with varied delay and cancellation cells: the inputs of Spec      *)

OptionalColumns ==
    {"CRS_DEP_TIME", "DEP_TIME", "CRS_ARR_TIME", "ARR_TIME", "DEP_DELAY",
     "CANCELLED", "CARRIER"}

DateColumnChoices == {{"FL_DATE"}, {"YEAR", "MONTH", "DAY"}, {}}

ColumnOrder ==
    <<"YEAR", "MONTH", "DAY", "FL_DATE", "CARRIER", "CRS_DEP_TIME", "DEP_TIME",
      "DEP_DELAY", "CRS_ARR_TIME", "ARR_TIME", "CANCELLED">>

SampleRow ==
    [YEAR |-> IntCell(2022), MONTH |-> IntCell(1), DAY |-> IntCell(1),
     FL_DATE |-> StrCell(Jan01), CARRIER |-> StrCell(<<"A", "A">>),
     CRS_DEP_TIME |-> IntCell(900), DEP_TIME |-> IntCell(915),
     DEP_DELAY |-> IntCell(20), CRS_ARR_TIME |-> IntCell(1100),
     ARR_TIME |-> IntCell(1110), CANCELLED |-> IntCell(0)]

\* the flight file with the columns chosen and the rows given, cut to them
FileWith(chosen, rows) ==
    LET Chosen(c) == c \in chosen
    IN  [cols |-> SelectSeq(ColumnOrder, Chosen),
         rows |-> [i \in DOMAIN rows |-> [c \in chosen |-> rows[i][c]]]]

ColumnCombinationFlights ==
    {FileWith(dc \cup oc, rows) :
        dc \in DateColumnChoices, oc \in SUBSET OptionalColumns,
        rows \in {<<>>, <<SampleRow>>}} \ {FileWith({}, <<>>)}

\* an explicit cancellation column, read as integers, as floats or as text
CancelColumnFlights ==
    Tables(<<"FL_DATE", "CANCELLED">>,
           [FL_DATE |-> {StrCell(Jan01)},
            CANCELLED |-> {IntCell(0), IntCell(1), IntCell(2), FloatCell(1), NaN,
                           StrCell(<<"B">>), StrCell(<<"1">>)}],
           MaxFlights)

\* two columns whose names contain CANCEL, in both orders
TwoCancelColumnFlights ==
    UNION {Tables(cols,
                  [FL_DATE |-> {StrCell(Jan01)},
                   CANCELLATION_CODE |-> {StrCell(<<"B">>), NaN},
                   CANCELLED |-> {IntCell(0), IntCell(1)}],
                  MaxFlights) :
           cols \in {<<"FL_DATE", "CANCELLED", "CANCELLATION_CODE">>,
                     <<"FL_DATE", "CANCELLATION_CODE", "CANCELLED">>}}

\* no cancellation column: the flag is inferred from the actual times
InferredCancelFlights ==
    Tables(<<"FL_DATE", "DEP_TIME", "ARR_TIME">>,
           [FL_DATE |-> {StrCell(Jan01)},
            DEP_TIME |-> {FloatCell(915), NaN},
            ARR_TIME |-> {FloatCell(1110), NaN}],
           MaxFlights)

\* an explicit delay column beside the two departure times
DelayColumnFlights ==
    Tables(<<"FL_DATE", "CRS_DEP_TIME", "DEP_TIME", "DEP_DELAY">>,
           [FL_DATE |-> {StrCell(Jan01)},
            CRS_DEP_TIME |-> {IntCell(900)},
            DEP_TIME |-> {IntCell(915), IntCell(930)},
            DEP_DELAY |-> {IntCell(14), IntCell(15), IntCell(16), IntCell(-5),
                           FloatCell(16), NaN, StrCell(<<"x">>),
                           StrCell(<<"1", "6">>)}],
           MaxFlights)

\* delays that come from the two departure times
TimedDelayFlights ==
    Tables(<<"FL_DATE", "CRS_DEP_TIME", "DEP_TIME">>,
           [FL_DATE |-> {StrCell(Jan01), StrCell(Jan02)},
            CRS_DEP_TIME |-> {IntCell(900)},
            DEP_TIME |-> {IntCell(915), IntCell(916), IntCell(850)}],
           MaxFlights)

\* a weather file without any date column
UndatedWeather ==
    [cols |-> <<"STATION", "TMAX">>,
     rows |-> << [STATION |-> StrCell(<<"J", "F", "K">>), TMAX |-> IntCell(70)] >>]

SpecFlights ==
    ColumnCombinationFlights \cup CancelColumnFlights \cup TwoCancelColumnFlights
        \cup InferredCancelFlights \cup DelayColumnFlights \cup TimedDelayFlights

Init == Start(SpecFlights, {OneDayWeather, UndatedWeather}, NoFaults)

Spec == Init /\ [][Next]_vars

----------------------------------------------------------------------------
(* Properties of the flight preparation and of the derived columns,        *)
(* checked under Spec                                                      *)

\* C2: once derived, CANCELLED_FLAG is 0 or 1 on every row, never missing,
\* with or without a column whose name contains CANCEL.
C2_CancelledFlagIsBinary ==
    Has(fl, "CANCELLED_FLAG")
    => \A i \in DOMAIN fl.rows :
          fl.rows[i]["CANCELLED_FLAG"] \in {IntCell(0), IntCell(1)}

\* C3: whatever optional columns the two files have, the script never ends
\* in an exception on its way to saving the merged table.
C3_ReachesSaveWithoutRaising == pc # "raised" /\ raised = ""

\* the number a cell is coerced to: itself when numeric, the number text
\* spells, missing otherwise
CoercedNumber(c) ==
    IF c.t \in {"int", "float"} THEN c
    ELSE IF c.t = "str" /\ AllDecimal(c.s) THEN IntCell(ParseInt(c.s))
    ELSE NaN

\* the flight file of the end-to-end case: one flight on 2022-01-01,
\* scheduled 0900, departed 0915
EndToEndFlights ==
    [cols |-> <<"FL_DATE", "CRS_DEP_TIME", "DEP_TIME">>,
     rows |-> << [FL_DATE |-> StrCell(Jan01), CRS_DEP_TIME |-> IntCell(900),
                  DEP_TIME |-> IntCell(915)] >>]

\* C7: DEP_DELAY_MIN is the DEP_DELAY column coerced to a number when that
\* column exists; else actual minus scheduled departure in minutes when both
\* timestamps were derived; else missing.  The end-to-end case gives
\* DEP_DELAY_MIN 15, LONG_DELAY_FLAG 0 and TMAX 70.
C7_DelayPriority ==
    /\ Has(fl, "DEP_DELAY_MIN")
       => \A i \in DOMAIN fl.rows :
             LET delay == fl.rows[i]["DEP_DELAY_MIN"]
             IN  IF Has(flights_raw, "DEP_DELAY")
                 THEN delay = CoercedNumber(flights_raw.rows[i]["DEP_DELAY"])
                 ELSE IF Has(fl, "SCHED_DEP_DATETIME") /\ Has(fl, "ACTUAL_DEP_DATETIME")
                 THEN LET sched  == fl.rows[i]["SCHED_DEP_DATETIME"]
                          actual == fl.rows[i]["ACTUAL_DEP_DATETIME"]
                      IN  IF sched.t = "datetime" /\ actual.t = "datetime"
                          THEN delay = FloatCell(actual.n - sched.n)
                          ELSE delay = NaN
                 ELSE delay = NaN
    /\ (/\ flights_raw = EndToEndFlights /\ weather_raw = OneDayWeather
        /\ Has(m, "LONG_DELAY_FLAG"))
       => /\ Len(m.rows) = 1
          /\ m.rows[1]["DEP_DELAY_MIN"] = FloatCell(15)
          /\ m.rows[1]["LONG_DELAY_FLAG"] = IntCell(0)
          /\ m.rows[1]["TMAX"] = FloatCell(70)

\* the end-to-end case has run to the end and its delay is 15 minutes
C7_Witness ==
    /\ pc = "done"
    /\ flights_raw = EndToEndFlights /\ weather_raw = OneDayWeather
    /\ m.rows[1]["DEP_DELAY_MIN"] = FloatCell(15)
    /\ m.rows[1]["TMAX"] = FloatCell(70)

\* C8: on every row of the final table LONG_DELAY_FLAG is 1 exactly when
\* DEP_DELAY_MIN is present and above 15, and 0 otherwise (15 itself, less
\* than 15, negative, missing); the table that reached this step is never
\* lost to an exception here.
C8_LongDelayFlag ==
    /\ Has(m, "LONG_DELAY_FLAG")
       => \A i \in DOMAIN m.rows :
             LET delay == m.rows[i]["DEP_DELAY_MIN"]
                 over  == delay.t \in {"int", "float"} /\ delay.n > 15 * delay.d
             IN  m.rows[i]["LONG_DELAY_FLAG"] = IntCell(IF over THEN 1 ELSE 0)
    /\ (pc = "raised" => ~Has(merged, "FL_DATE"))
    /\ (pc \in {"save", "chart_monthly", "done"} => Has(m, "LONG_DELAY_FLAG"))

\* a final table with a delay of exactly 15 flagged 0 beside a delay of 16
\* flagged 1
C8_Witness ==
    /\ Has(m, "LONG_DELAY_FLAG")
    /\ \E i \in DOMAIN m.rows :
          m.rows[i]["DEP_DELAY_MIN"].n = 15 /\ m.rows[i]["DEP_DELAY_MIN"].t = "int"
          /\ m.rows[i]["LONG_DELAY_FLAG"] = IntCell(0)
    /\ \E i \in DOMAIN m.rows :
          m.rows[i]["DEP_DELAY_MIN"].n = 16 /\ m.rows[i]["LONG_DELAY_FLAG"] = IntCell(1)

----------------------------------------------------------------------------
(* Weather files with varied dates and measurements: the inputs of         *)
(* SpecWeather                                                             *)

\* a date column and a numeric column with missing values
DatedNumericWeather ==
    Tables(<<"DATE", "TMAX">>,
           [DATE |-> {StrCell(Jan01), StrCell(Jan02), StrCell(NotADate)},
            TMAX |-> {FloatCell(50), FloatCell(60), NaN}],
           MaxWeather)

\* a date column and no numeric column
DatedTextWeather ==
    Tables(<<"DATE", "STATION">>,
           [DATE |-> {StrCell(Jan01), StrCell(Jan02)},
            STATION |-> {StrCell(<<"J", "F", "K">>)}],
           MaxWeather)

\* no date column
UndatedWeatherFiles ==
    Tables(<<"STATION", "TMAX">>,
           [STATION |-> {StrCell(<<"J", "F", "K">>)},
            TMAX |-> {IntCell(50), IntCell(60)}],
           MaxWeather)

\* the date given as YEAR, MONTH and DAY
YmdWeather ==
    Tables(<<"YEAR", "MONTH", "DAY", "TMAX">>,
           [YEAR |-> {IntCell(2022)}, MONTH |-> {IntCell(1)},
            DAY |-> {IntCell(1), IntCell(32)},
            TMAX |-> {IntCell(50), IntCell(60)}],
           MaxWeather)

WeatherFiles ==
    DatedNumericWeather \cup DatedTextWeather \cup UndatedWeatherFiles \cup YmdWeather

DatedFlights ==
    Tables(<<"FL_DATE", "DEP_DELAY">>,
           [FL_DATE |-> {StrCell(Jan01), StrCell(NotADate)},
            DEP_DELAY |-> {IntCell(20)}],
           MaxFlights)

InitWeather == Start(DatedFlights \cup UndatedFlights, WeatherFiles, NoFaults)

SpecWeather == InitWeather /\ [][Next]_vars

----------------------------------------------------------------------------
(* Properties of the weather aggregate and of the merge, checked under     *)
(* SpecWeather                                                             *)

Aggregated == pc \notin {"prepare_date", "time_map", "dep_delay", "cancel_flag",
                         "project", "prepare_weather", "aggregate_weather"}

Merged == Aggregated /\ pc # "merge"

\* the weather columns of the merged table
WeatherColumns == Columns(merged) \ Columns(fl_small)

\* C1 as stated: for every weather file, with or without numeric columns,
\* the merged table has as many rows as the normalized flight table.
C1_MergeKeepsRowCountAlways == Merged => Len(merged.rows) = Len(fl_small.rows)

\* C1 amended: when the weather file has no DATE column, or has a DATE
\* column and at least one numeric column, the merged table has one row per
\* flight row, in order, and a flight whose date has no weather row carries
\* missing weather fields.
C1_MergeKeepsRowCount ==
    (Merged /\ (~Has(wx, "DATE") \/ Len(numeric_weather_cols(wx)) > 0))
    => /\ Len(merged.rows) = Len(fl_small.rows)
       /\ \A i \in DOMAIN merged.rows :
             /\ \A c \in Columns(fl_small) : merged.rows[i][c] = fl_small.rows[i][c]
             /\ (/\ Has(fl_small, "FL_DATE") /\ Has(wx, "DATE")
                 /\ \A j \in DOMAIN wx.rows :
                       ~(/\ wx.rows[j]["DATE"].t = "datetime"
                         /\ wx.rows[j]["DATE"] = fl_small.rows[i]["FL_DATE"]))
                => \A c \in WeatherColumns : isna(merged.rows[i][c])
       /\ (~Has(fl_small, "FL_DATE") \/ ~Has(wx, "DATE")) => WeatherColumns = {}

\* two weather rows share the date of a flight, and the merge has kept one
\* row per flight
C1_Witness ==
    /\ Merged /\ Has(wx, "DATE") /\ Len(numeric_weather_cols(wx)) > 0
    /\ Len(fl_small.rows) = 2 /\ Len(merged.rows) = 2
    /\ \E j, k \in DOMAIN wx.rows :
          /\ j # k /\ wx.rows[j]["DATE"] = wx.rows[k]["DATE"]
          /\ wx.rows[j]["DATE"] = merged.rows[1]["FL_DATE"]
          /\ merged.rows[1]["FL_DATE"].t = "datetime"
    /\ merged.rows[2]["FL_DATE"].t = "nat" /\ isna(merged.rows[2]["TMAX"])

\* the weather rows of one date
RowsOfDate(dt) == {i \in DOMAIN wx.rows : wx.rows[i]["DATE"] = dt}

RECURSIVE Total(_, _)
Total(c, idx) ==
    IF idx = {} THEN 0
    ELSE LET i == CHOOSE x \in idx : TRUE IN wx.rows[i][c].n + Total(c, idx \ {i})

\* the aggregate has exactly one row for every date of the weather table
\* that is not missing
OneRowPerDate ==
    /\ \A g \in DOMAIN wx_agg.rows : wx_agg.rows[g]["DATE"].t = "datetime"
    /\ \A g, h \in DOMAIN wx_agg.rows :
          wx_agg.rows[g]["DATE"] = wx_agg.rows[h]["DATE"] => g = h
    /\ {wx_agg.rows[g]["DATE"] : g \in DOMAIN wx_agg.rows}
          = {wx.rows[i]["DATE"] : i \in {j \in DOMAIN wx.rows :
                                           wx.rows[j]["DATE"].t = "datetime"}}

AggregatedByDate == Aggregated /\ Has(wx, "DATE") /\ Len(numeric_weather_cols(wx)) > 0

\* C6 as stated: one row per date, each numeric column the mean over all
\* the weather rows of the date (a missing value among them leaves no mean).
C6_MeanOverAllRows ==
    AggregatedByDate
    => /\ OneRowPerDate
       /\ \A g \in DOMAIN wx_agg.rows : \A c \in Range(numeric_weather_cols(wx)) :
             LET all == RowsOfDate(wx_agg.rows[g]["DATE"])
                 avg == wx_agg.rows[g][c]
             IN  IF \E i \in all : isna(wx.rows[i][c]) THEN isna(avg)
                 ELSE avg.t = "float" /\ avg.n * Cardinality(all) = avg.d * Total(c, all)

\* C6 amended: one row per date that is not missing, each numeric column
\* the mean over the weather rows of the date that have a value in that
\* column, missing when none has (50 and 60 give 55).
C6_MeanOverPresentValues ==
    AggregatedByDate
    => /\ OneRowPerDate
       /\ \A g \in DOMAIN wx_agg.rows : \A c \in Range(numeric_weather_cols(wx)) :
             LET present == {i \in RowsOfDate(wx_agg.rows[g]["DATE"]) :
                               ~isna(wx.rows[i][c])}
                 avg == wx_agg.rows[g][c]
             IN  IF present = {} THEN isna(avg)
                 ELSE /\ avg.t = "float"
                      /\ avg.n * Cardinality(present) = avg.d * Total(c, present)

\* two rows of 2022-01-01 with TMAX 50 and 60 have been aggregated to 55
C6_Witness ==
    /\ AggregatedByDate
    /\ Len(wx.rows) = 2 /\ wx.rows[1]["DATE"] = wx.rows[2]["DATE"]
    /\ wx.rows[1]["TMAX"] = FloatCell(50) /\ wx.rows[2]["TMAX"] = FloatCell(60)
    /\ Len(wx_agg.rows) = 1 /\ wx_agg.rows[1]["TMAX"] = FloatCell(55)

----------------------------------------------------------------------------
(* Every subset of the chart blocks failing: the inputs of SpecCharts      *)

ChartFlights ==
    {FileWith({"FL_DATE"} \cup oc, <<SampleRow>>) : oc \in SUBSET {"CARRIER", "DEP_DELAY"}}
        \cup UndatedFlights

\* a weather file with no temperature-like column
StationWeather ==
    [cols |-> <<"DATE", "STATION">>,
     rows |-> << [DATE |-> StrCell(Jan01), STATION |-> StrCell(<<"J", "F", "K">>)] >>]

InitCharts ==
    Start(ChartFlights, {OneDayWeather, StationWeather}, SUBSET Range(ChartOrder))

\* the script is one sequential program: a block that can run does run
SpecCharts == InitCharts /\ [][Next]_vars /\ WF_vars(Next)

\* the charts attempted so far, in the order attempted
Attempted == [i \in DOMAIN charts |-> charts[i].chart]

\* C9: once the merged table is saved, the chart blocks are attempted in
\* their fixed order whichever of them fail, a failing block is logged as
\* failed and ends nothing, and the summary is eventually printed.
C9_ChartFailuresAreIsolated ==
    /\ [](Attempted = SubSeq(ChartOrder, 1, Len(charts)))
    /\ [](pc \in {"summary", "done"} => Attempted = ChartOrder)
    /\ [](\A i \in DOMAIN charts :
             (charts[i].chart \in faults /\ ChartGuard(charts[i].chart, m))
             => charts[i].outcome = "failed")
    /\ [](saved => pc # "raised")
    /\ (saved ~> pc = "done")

\* the first chart failed, a later one was saved and the summary was printed
C9_Witness ==
    /\ pc = "done"
    /\ Len(charts) = 5
    /\ charts[1].outcome = "failed" /\ charts[3].outcome = "failed"
    /\ charts[2].outcome = "saved" /\ charts[5].outcome = "saved"

=============================================================================
